---- MODULE Spec2Model ----
(***************************************************************************)
(* A model of pdm/cli/options.py: reusable Option / ArgumentGroup          *)
(* specifications, the deferred CallbackAction, the SplitList action made  *)
(* by split_lists(separator) and the from_splitted_env default helper.     *)
(*                                                                         *)
(* Text is a sequence of one-character strings.  Python objects that are   *)
(* shared by reference (an Option's default list, an Option instance) are  *)
(* modelled with their identity, so that aliasing is visible.              *)
(***************************************************************************)
EXTENDS Integers, Sequences, FiniteSets, TLC

VARIABLES
    \* ---- from_splitted_env ------------------------------------------
    environ,        \* the environment variable read: [set, s]
    envSeparator,   \* the separator handed to from_splitted_env
    envResult,      \* what the call returned: [kind, items], kind "pending" before
    \* ---- split_lists(separator).SplitList ---------------------------
    separator,      \* the separator closed over by split_lists
    defaultObj,     \* the default object the Option declares: [kind, items]
    declared,       \* the contents of defaultObj when the Option was declared
    slot,           \* namespace.<dest>: [kind, items]; kind "absent" outside a parse
    matched,        \* the values matched so far in the running parse
    raised,         \* the exception that ended the running parse, or "none"
    parses,         \* number of parses started
    \* ---- Option, CallbackAction, the deferred invocations -----------
    options,        \* Option instance -> [args, kwargs]
    called,         \* the last Option.__call__: [self, func, ret]
    epoch,          \* Option instance -> number of Option.__call__ on it
    registered,     \* container -> the add_argument calls it received, in order
    phase,          \* "build", "parse", "run" or "done"
    parsing,        \* the container whose parse is running, "none" otherwise
    ns,             \* the parse result: [has, callbacks, dests]
    consumed,       \* the flags of argv matched so far: [alias, arg]
    project,        \* the execution context the handlers act on
    exited,         \* sys.exit was called
    ran,            \* indices of the deferred invocations executed, in order
    \* ---- ArgumentGroup ----------------------------------------------
    groups,         \* ArgumentGroup instance -> [name, is_mutually_exclusive, required, options]
    target,         \* the engine container the groups are registered into
    lastGroup       \* the ArgumentGroup of the last registration, 0 before any

envVars   == <<environ, envSeparator, envResult>>
splitVars == <<separator, defaultObj, declared, slot, matched, raised, parses>>
cliVars   == <<options, called, epoch, registered, phase, parsing, ns, consumed,
               project, exited, ran>>
groupVars == <<groups, target, lastGroup>>
vars      == <<envVars, splitVars, cliVars, groupVars>>

----------------------------------------------------------------------------
(* Bounds of the model. *)
MaxValLen  == 3     \* longest text value (argv value, environment value)
MaxSepLen  == 1     \* longest separator
MaxMatches == 2     \* matches of one flag in one parse
MaxParses  == 2     \* parses sharing the Option trees
MaxEnvLen  == 1     \* longest PDM_SKIP_HOOKS value behind a declared default
MaxCalls   == 2     \* Option.__call__ invocations after construction
MaxArgv    == 3     \* flags on one command line
NumGroups  == 3     \* ArgumentGroup instances
MaxAdds    == 3     \* children added to the groups, in total
MaxRegs    == 2     \* registrations of a group into the target container

Chars      == {"a", " ", ","}
Whitespace == {" "}

RECURSIVE TextsOfLen(_)
TextsOfLen(n) ==
    IF n = 0 THEN {<<>>}
    ELSE {<<c>> \o t : c \in Chars, t \in TextsOfLen(n - 1)}

Texts(n) == UNION {TextsOfLen(k) : k \in 0..n}

Separators == Texts(MaxSepLen)

----------------------------------------------------------------------------
(* str.strip(), str.split(sep) as Python computes them. *)

IsSpace(c) == c \in Whitespace

RECURSIVE LStrip(_)
LStrip(s) == IF s # <<>> /\ IsSpace(Head(s)) THEN LStrip(Tail(s)) ELSE s

RECURSIVE RStrip(_)
RStrip(s) ==
    IF s # <<>> /\ IsSpace(s[Len(s)]) THEN RStrip(SubSeq(s, 1, Len(s) - 1)) ELSE s

(* value.strip() *)
Strip(s) == RStrip(LStrip(s))

(* sep occurs in s at position i *)
OccursAt(sep, s, i) ==
    /\ i >= 1
    /\ i + Len(sep) - 1 <= Len(s)
    /\ SubSeq(s, i, i + Len(sep) - 1) = sep

(* str.find: the leftmost position of sep in s, 0 when there is none *)
Find(s, sep) ==
    LET hits == {i \in 1..Len(s) : OccursAt(sep, s, i)}
    IN  IF hits = {} THEN 0 ELSE CHOOSE i \in hits : \A j \in hits : i <= j

(* values.split(separator) for a non-empty separator: leftmost,           *)
(* non-overlapping cuts; always at least one piece.                       *)
RECURSIVE PySplit(_, _)
PySplit(s, sep) ==
    LET i == Find(s, sep)
    IN  IF i = 0 THEN <<s>>
        ELSE <<SubSeq(s, 1, i - 1)>> \o PySplit(SubSeq(s, i + Len(sep), Len(s)), sep)

(* [v.strip() for v in value.split(separator) if v.strip()] *)
RECURSIVE StripKeep(_)
StripKeep(pieces) ==
    IF pieces = <<>> THEN <<>>
    ELSE LET v == Strip(Head(pieces))
         IN  (IF v # <<>> THEN <<v>> ELSE <<>>) \o StripKeep(Tail(pieces))

SplitStripped(s, sep) == StripKeep(PySplit(s, sep))

----------------------------------------------------------------------------
(* from_splitted_env(name, separator) *)

Unset      == [set |-> FALSE, s |-> <<>>]
EnvText(s) == [set |-> TRUE, s |-> s]

ReturnNone       == [kind |-> "None", items |-> <<>>]
ReturnList(l)    == [kind |-> "list", items |-> l]
RaiseValueError  == [kind |-> "ValueError", items |-> <<>>]
Pending          == [kind |-> "pending", items |-> <<>>]

(* from_splitted_env without the trailing "or None" *)
from_splitted_env_no_or_none(value, sep) ==
    IF ~value.set \/ value.s = <<>> THEN ReturnNone
    ELSE IF sep = <<>> THEN RaiseValueError
    ELSE ReturnList(SplitStripped(value.s, sep))

from_splitted_env(value, sep) ==
    IF ~value.set \/ value.s = <<>> THEN ReturnNone          \* if not value
    ELSE IF sep = <<>> THEN RaiseValueError                  \* str.split("")
    ELSE LET l == SplitStripped(value.s, sep)
         IN  IF l = <<>> THEN ReturnNone ELSE ReturnList(l)  \* [...] or None

EnvIdle ==
    /\ environ = Unset
    /\ envSeparator = <<>>
    /\ envResult = Pending

EnvInit ==
    /\ environ \in {Unset} \cup {EnvText(s) : s \in Texts(MaxValLen)}
    /\ envSeparator \in Separators
    /\ envResult = Pending

CallFromSplittedEnv ==
    /\ envResult = Pending
    /\ envResult' = from_splitted_env(environ, envSeparator)
    /\ UNCHANGED <<environ, envSeparator, splitVars, cliVars, groupVars>>


----------------------------------------------------------------------------
(* split_lists(separator): the SplitList action and the parse around it.   *)
(*                                                                         *)
(* The namespace slot either holds the very object the Option declares as  *)
(* its default (kind "default": argparse copies the reference, not the     *)
(* list) or a list that SplitList created (kind "own").                    *)

Absent       == [kind |-> "absent", items |-> <<>>]
HoldsDefault == [kind |-> "default", items |-> <<>>]
Own(l)       == [kind |-> "own", items |-> l]

TextValue(s) == [text |-> TRUE, s |-> s]
NonText      == [text |-> FALSE, s |-> <<>>]
Values       == {NonText} \cup {TextValue(s) : s \in Texts(MaxValLen)}

(* the defaults the catalog declares: none (--strategy), [] (--group,      *)
(* --without) and from_splitted_env("PDM_SKIP_HOOKS", ",") (--skip)        *)
DeclaredDefaults ==
    {ReturnNone, ReturnList(<<>>)}
        \cup {from_splitted_env(EnvText(s), <<",">>) : s \in Texts(MaxEnvLen)}

(* getattr(args, self.dest) *)
SlotObject(sl, dflt) == IF sl.kind = "default" THEN dflt ELSE ReturnList(sl.items)

(* the sequence at the destination, empty when unset *)
SlotItems(sl, dflt) == SlotObject(sl, dflt).items

(* split.extend(...) replaced by an assignment of the new pieces *)
ExtendOverwrites(old, pieces) == pieces

(* split.extend(value.strip() for value in values.split(separator) if value.strip()) *)
Extend(old, pieces) == old \o pieces

(* SplitList.__call__ on a text value with a non-empty separator:         *)
(* [slot, dflt] after the call.  "getattr(...) or []" keeps the object     *)
(* that is there when it is a non-empty list and makes a new list          *)
(* otherwise; extend changes that object in place.                         *)
SplitListEffect(sl, dflt, s, sep) ==
    LET cur    == SlotObject(sl, dflt)
        pieces == SplitStripped(s, sep)
    IN  IF cur.kind = "list" /\ cur.items # <<>>
        THEN IF sl.kind = "default"
             THEN [slot |-> sl, dflt |-> ReturnList(Extend(dflt.items, pieces))]
             ELSE [slot |-> Own(Extend(sl.items, pieces)), dflt |-> dflt]
        ELSE [slot |-> Own(Extend(<<>>, pieces)), dflt |-> dflt]

SplitInit ==
    /\ separator \in Separators
    /\ defaultObj \in DeclaredDefaults
    /\ declared = defaultObj
    /\ slot = Absent
    /\ matched = <<>>
    /\ raised = "none"
    /\ parses = 0

(* parse_args: a new namespace whose slot is set to the Option's default *)
SplitParseBegin ==
    /\ slot = Absent
    /\ parses < MaxParses
    /\ slot' = HoldsDefault
    /\ matched' = <<>>
    /\ raised' = "none"
    /\ parses' = parses + 1
    /\ UNCHANGED <<separator, defaultObj, declared, envVars, cliVars, groupVars>>

(* one match of the flag: SplitList.__call__(parser, args, values) *)
SplitListCall ==
    \E v \in Values :
        /\ slot # Absent
        /\ raised = "none"
        /\ Len(matched) < MaxMatches
        /\ matched' = Append(matched, v)
        /\ IF ~v.text
           THEN UNCHANGED <<slot, defaultObj, raised>>   \* not a str: return
           ELSE IF separator = <<>>
           THEN /\ raised' = "ValueError"                \* values.split("")
                /\ UNCHANGED <<slot, defaultObj>>
           ELSE LET e == SplitListEffect(slot, defaultObj, v.s, separator)
                IN  /\ slot' = e.slot
                    /\ defaultObj' = e.dflt
                    /\ UNCHANGED raised
        /\ UNCHANGED <<separator, declared, parses, envVars, cliVars, groupVars>>

(* the parse is over (or was ended by the exception); the namespace goes *)
SplitParseEnd ==
    /\ slot # Absent
    /\ slot' = Absent
    /\ matched' = <<>>
    /\ raised' = "none"
    /\ UNCHANGED <<separator, defaultObj, declared, parses, envVars, cliVars, groupVars>>


----------------------------------------------------------------------------
(* Option, CallbackAction and the deferred invocations.                    *)

OptionIds  == {"frozen_lockfile", "pep582", "ignore_python"}
Containers == {"parser", "group"}

(* Option.__init__ *)
OptionNew(args, kwargs) == [args |-> args, kwargs |-> kwargs]

(* the three Option(...) expressions the decorators are applied to *)
DeclaredOption(o) ==
    CASE o = "frozen_lockfile" ->
            OptionNew(<<"--frozen-lockfile", "--no-lock">>,
                      [action |-> "unset", callback |-> "unset",
                       nargs |-> "0", const |-> "unset"])
      [] o = "pep582" ->
            OptionNew(<<"--pep582">>,
                      [action |-> "unset", callback |-> "unset",
                       nargs |-> "?", const |-> "AUTO"])
      [] o = "ignore_python" ->
            OptionNew(<<"-I", "--ignore-python">>,
                      [action |-> "unset", callback |-> "unset",
                       nargs |-> "0", const |-> "unset"])

(* the function each decorator is applied to in the module *)
DecoratedWith(o) ==
    CASE o = "frozen_lockfile" -> "frozen_lockfile_option"
      [] o = "pep582"          -> "pep582_option"
      [] o = "ignore_python"   -> "ignore_python_option"

(* self.kwargs.update(action=..., callback=func) binding the action only *)
OptionCallDropsCallback(self, func) ==
    [self EXCEPT !.kwargs.action = "CallbackAction"]

(* Option.__call__: self.kwargs.update(action=CallbackAction, callback=func) *)
OptionCallUpdate(self, func) ==
    [self EXCEPT !.kwargs.action = "CallbackAction", !.kwargs.callback = func]

(* Option.__call__: return self *)
OptionCallReturn(o) == o

NoCall == [self |-> "none", func |-> "none", ret |-> "none"]

(* registration that consumes the callback it hands over *)
RegistrationPopsCallback(self) ==
    [reg  |-> [args |-> self.args, kwargs |-> self.kwargs],
     self |-> [self EXCEPT !.kwargs.callback = "unset"]]

(* Option.add_to_parser: the parser gets add_argument of self.args, self.kwargs:  *)
(* the call received and the Option afterwards                             *)
Option_add_to_parser(self) ==
    [reg  |-> [args |-> self.args, kwargs |-> self.kwargs],
     self |-> self]

(* Option.add_to_group: the group gets the same add_argument *)
Option_add_to_group(self) ==
    [reg  |-> [args |-> self.args, kwargs |-> self.kwargs],
     self |-> self]

AliasesOf(regs) == UNION {{r.args[k] : k \in 1..Len(r.args)} : r \in {regs[i] : i \in 1..Len(regs)}}

(* add_argument succeeds: no alias is taken in the container, and an      *)
(* argument with the default store action does not have nargs=0           *)
EngineAccepts(regs, reg) ==
    /\ \A k \in 1..Len(reg.args) : reg.args[k] \notin AliasesOf(regs)
    /\ reg.kwargs.action = "CallbackAction" \/ reg.kwargs.nargs # "0"

(* a fresh Namespace: every destination at its default, no callbacks attribute *)
NewNamespace(dests) == [has |-> FALSE, callbacks |-> <<>>, dests |-> [o \in dests |-> "None"]]

NoNamespace == NewNamespace({})

Deferred(callback, values, option_string) ==
    [handler |-> callback, values |-> values, option_string |-> option_string]

(* a CallbackAction that puts the new record first *)
CallbackActionPrepends(namespace, callback, dest, values, option_string) ==
    [namespace EXCEPT !.has = TRUE,
                      !.callbacks = <<Deferred(callback, values, option_string)>> \o @]

(* a CallbackAction that also stores the value, as the default action does *)
CallbackActionStores(namespace, callback, dest, values, option_string) ==
    [namespace EXCEPT !.has = TRUE,
                      !.callbacks = Append(@, Deferred(callback, values, option_string)),
                      !.dests[dest] = values]

(* CallbackAction.__call__: create namespace.callbacks when absent, then  *)
(* append partial(self.callback, values=values, option_string=...)        *)
CallbackAction_call(namespace, callback, dest, values, option_string) ==
    LET n == IF ~namespace.has
             THEN [namespace EXCEPT !.has = TRUE, !.callbacks = <<>>]
             ELSE namespace
    IN  [n EXCEPT !.callbacks = Append(@, Deferred(callback, values, option_string))]

(* the default store action of the engine: setattr(namespace, dest, values) *)
StoreAction_call(namespace, dest, values) == [namespace EXCEPT !.dests[dest] = values]

(* the values the engine hands to the action: [] for nargs=0, the given   *)
(* argument or else const for nargs="?"                                    *)
EngineValues(kwargs, given) ==
    IF kwargs.nargs = "0" THEN "[]"
    ELSE IF given = "none" THEN kwargs.const ELSE given

NewProject(write) ==
    [enable_write_lockfile |-> write, warnings |-> <<>>, printed |-> <<>>,
     PDM_IGNORE_SAVED_PYTHON |-> "unset"]

(* frozen_lockfile_option returning right after the deprecation warning *)
frozen_lockfile_option_warn_returns(proj, values, option_string) ==
    IF option_string = "--no-lock"
    THEN [project |-> [proj EXCEPT !.warnings = Append(@, "--no-lock is deprecated")],
          exit |-> FALSE]
    ELSE [project |-> [proj EXCEPT !.enable_write_lockfile = FALSE], exit |-> FALSE]

(* frozen_lockfile_option: warn on the deprecated alias, then disable *)
frozen_lockfile_option(proj, values, option_string) ==
    [project |->
        [proj EXCEPT
            !.warnings = IF option_string = "--no-lock"
                         THEN Append(@, "--no-lock is deprecated, use --frozen-lockfile instead.")
                         ELSE @,
            !.enable_write_lockfile = FALSE],
     exit |-> FALSE]

(* pep582_option returning to its caller instead of leaving the process *)
pep582_option_returns(proj, values, option_string) ==
    [project |-> [proj EXCEPT !.printed = Append(@, values)], exit |-> FALSE]

(* pep582_option: print_pep582_command(project, values); sys.exit(0) *)
pep582_option(proj, values, option_string) ==
    [project |-> [proj EXCEPT !.printed = Append(@, values)], exit |-> TRUE]

(* ignore_python_option: os.environ.update({"PDM_IGNORE_SAVED_PYTHON": "1"}) *)
ignore_python_option(proj, values, option_string) ==
    [project |-> [proj EXCEPT !.PDM_IGNORE_SAVED_PYTHON = "1"], exit |-> FALSE]

(* calling a deferred invocation: the partial applied to the project *)
Invoke(rec, proj) ==
    CASE rec.handler = "frozen_lockfile_option" ->
            frozen_lockfile_option(proj, rec.values, rec.option_string)
      [] rec.handler = "pep582_option" ->
            pep582_option(proj, rec.values, rec.option_string)
      [] rec.handler = "ignore_python_option" ->
            ignore_python_option(proj, rec.values, rec.option_string)

(* getattr(options, "callbacks", []) *)
CallbacksOf(namespace) == IF namespace.has THEN namespace.callbacks ELSE <<>>

CliCommon ==
    /\ called = NoCall
    /\ registered = [c \in Containers |-> <<>>]
    /\ phase = "build"
    /\ parsing = "none"
    /\ ns = NoNamespace
    /\ consumed = <<>>
    /\ exited = FALSE
    /\ ran = <<>>

(* two Options as constructed, before any decorator is applied *)
CliConstructed ==
    /\ options = [o \in {"frozen_lockfile", "pep582"} |-> DeclaredOption(o)]
    /\ epoch = [o \in DOMAIN options |-> 0]
    /\ project = NewProject(TRUE)
    /\ CliCommon

(* the module as imported: every decorator applied once *)
CliImported ==
    /\ options = [o \in OptionIds |-> OptionCallUpdate(DeclaredOption(o), DecoratedWith(o))]
    /\ epoch = [o \in OptionIds |-> 1]
    /\ project \in {NewProject(w) : w \in BOOLEAN}
    /\ CliCommon

CliIdle == CliConstructed

RECURSIVE SumOver(_, _)
SumOver(f, S) ==
    IF S = {} THEN 0
    ELSE LET x == CHOOSE y \in S : TRUE IN f[x] + SumOver(f, S \ {x})

TotalCalls(e) == SumOver(e, DOMAIN e)

(* Option(...)(func), at any time the program is not inside a parse *)
OptionCall ==
    \E o \in DOMAIN options, func \in {DecoratedWith(x) : x \in DOMAIN options} :
        /\ phase = "build"
        /\ TotalCalls(epoch) < MaxCalls
        /\ options' = [options EXCEPT ![o] = OptionCallUpdate(@, func)]
        /\ called' = [self |-> o, func |-> func, ret |-> OptionCallReturn(o)]
        /\ epoch' = [epoch EXCEPT ![o] = @ + 1]
        /\ UNCHANGED <<registered, phase, parsing, ns, consumed, project, exited, ran>>
        /\ UNCHANGED <<envVars, splitVars, groupVars>>

Register(o, c, r) ==
    /\ phase = "build"
    /\ EngineAccepts(registered[c], r.reg)
    /\ registered' = [registered EXCEPT ![c] =
                         Append(@, [args |-> r.reg.args, kwargs |-> r.reg.kwargs,
                                    of |-> o, epoch |-> epoch[o]])]
    /\ options' = [options EXCEPT ![o] = r.self]
    /\ UNCHANGED <<called, epoch, phase, parsing, ns, consumed, project, exited, ran>>
    /\ UNCHANGED <<envVars, splitVars, groupVars>>

AddToParser ==
    \E o \in DOMAIN options, c \in Containers : Register(o, c, Option_add_to_parser(options[o]))

AddToGroup ==
    \E o \in DOMAIN options, c \in Containers : Register(o, c, Option_add_to_group(options[o]))

(* parse_args on the parser that owns container c: a fresh namespace *)
ParseBegin ==
    \E c \in Containers :
        /\ phase = "build"
        /\ registered[c] # <<>>
        /\ phase' = "parse"
        /\ parsing' = c
        /\ ns' = NewNamespace({registered[c][i].of : i \in 1..Len(registered[c])})
        /\ consumed' = <<>>
        /\ UNCHANGED <<options, called, epoch, registered, project, exited, ran>>
        /\ UNCHANGED <<envVars, splitVars, groupVars>>

(* the engine matches the next flag of argv and calls its action *)
Match ==
    /\ phase = "parse"
    /\ Len(consumed) < MaxArgv
    /\ \E i \in 1..Len(registered[parsing]), given \in {"none", "zsh"} :
          LET r == registered[parsing][i]
          IN  \E k \in 1..Len(r.args) :
                  LET values == EngineValues(r.kwargs, given)
                  IN  /\ r.kwargs.nargs = "0" => given = "none"
                      /\ ns' = IF r.kwargs.action = "CallbackAction"
                               THEN CallbackAction_call(ns, r.kwargs.callback, r.of,
                                                        values, r.args[k])
                               ELSE StoreAction_call(ns, r.of, values)
                      /\ consumed' = Append(consumed, [alias |-> r.args[k], arg |-> given])
    /\ UNCHANGED <<options, called, epoch, registered, phase, parsing,
                   project, exited, ran>>
    /\ UNCHANGED <<envVars, splitVars, groupVars>>

(* parse_args returns the namespace *)
ParseEnd ==
    /\ phase = "parse"
    /\ phase' = "run"
    /\ UNCHANGED <<options, called, epoch, registered, parsing, ns, consumed,
                   project, exited, ran>>
    /\ UNCHANGED <<envVars, splitVars, groupVars>>

(* the command driver: for callback in callbacks: callback(project, options) *)
RunNext ==
    /\ phase = "run"
    /\ ~exited
    /\ Len(ran) < Len(CallbacksOf(ns))
    /\ LET i == Len(ran) + 1
           e == Invoke(CallbacksOf(ns)[i], project)
       IN  /\ project' = e.project
           /\ exited' = e.exit
           /\ ran' = Append(ran, i)
    /\ UNCHANGED <<options, called, epoch, registered, phase, parsing, ns, consumed>>
    /\ UNCHANGED <<envVars, splitVars, groupVars>>

(* the loop is over, or the process has exited *)
RunEnd ==
    /\ phase = "run"
    /\ exited \/ Len(ran) = Len(CallbacksOf(ns))
    /\ phase' = "done"
    /\ UNCHANGED <<options, called, epoch, registered, parsing, ns, consumed,
                   project, exited, ran>>
    /\ UNCHANGED <<envVars, splitVars, groupVars>>

----------------------------------------------------------------------------
(* ArgumentGroup and the scopes it creates in the engine's containers.     *)

GroupIds == 1..NumGroups

PlainKwargs(action) ==
    [action |-> action, callback |-> "unset", nargs |-> "unset", const |-> "unset"]

(* a leaf given to add_argument as raw arguments: the first of dev_group *)
RawLeaf == OptionNew(<<"-d", "--dev">>, PlainKwargs("store_true"))

(* a leaf appended as an Option instance: no_isolation_option *)
PrebuiltLeaf ==
    OptionCallUpdate(OptionNew(<<"--no-isolation">>,
                               [action |-> "unset", callback |-> "unset",
                                nargs |-> "0", const |-> "unset"]),
                     "no_isolation_option")

OptionChild(opt) == [kind |-> "Option", id |-> 0, args |-> opt.args, kwargs |-> opt.kwargs]
GroupChild(g)    == [kind |-> "ArgumentGroup", id |-> g, args |-> <<>>, kwargs |-> PlainKwargs("unset")]

(* ArgumentGroup.__init__ *)
ArgumentGroupNew(name, is_mutually_exclusive, required) ==
    [name |-> name, options |-> <<>>, required |-> required,
     is_mutually_exclusive |-> is_mutually_exclusive]

(* what the engine holds: an argument, or a scope with its entries *)
Argument(args, kwargs) ==
    [kind |-> "argument", title |-> "", required |-> FALSE,
     args |-> args, kwargs |-> kwargs, entries |-> <<>>]

Scope(kind, title, required) ==
    [kind |-> kind, title |-> title, required |-> required,
     args |-> <<>>, kwargs |-> PlainKwargs("unset"), entries |-> <<>>]

(* a group that always asks for a display scope *)
NewScopeIgnoresExclusive(self) == Scope("argument_group", self.name, FALSE)

(* ArgumentGroup.add_to_parser, the scope asked of the engine:             *)
(* add_mutually_exclusive_group(required=...) or add_argument_group(name)  *)
NewScope(self) ==
    IF self.is_mutually_exclusive
    THEN Scope("mutually_exclusive", "", self.required)
    ELSE Scope("argument_group", self.name, FALSE)

RECURSIVE ArgumentGroup_add_to_parser(_, _, _)
RECURSIVE ArgumentGroup_add_to_group(_, _, _)
RECURSIVE AddChildren(_, _, _)

(* for option in self.options: option.add_to_group(group) *)
AddChildren(gs, children, group) ==
    IF children = <<>> THEN group
    ELSE LET child == Head(children)
             next  == IF child.kind = "ArgumentGroup"
                      THEN ArgumentGroup_add_to_group(gs, child.id, group)
                      ELSE [group EXCEPT !.entries =
                               Append(@, Argument(Option_add_to_group(child).reg.args,
                                                  Option_add_to_group(child).reg.kwargs))]
         IN  AddChildren(gs, Tail(children), next)

(* ArgumentGroup.add_to_parser: the container after the call *)
ArgumentGroup_add_to_parser(gs, g, parser) ==
    [parser EXCEPT !.entries =
        Append(@, AddChildren(gs, gs[g].options, NewScope(gs[g])))]

(* ArgumentGroup.add_to_group: self.add_to_parser(group) *)
ArgumentGroup_add_to_group(gs, g, group) == ArgumentGroup_add_to_parser(gs, g, group)

RECURSIVE CountChildren(_, _)
CountChildren(gs, S) ==
    IF S = {} THEN 0
    ELSE LET g == CHOOSE x \in S : TRUE
         IN  Len(gs[g].options) + CountChildren(gs, S \ {g})

(* names from the catalog *)
GroupName(g) == IF g = 1 THEN "Dependencies Selection" ELSE IF g = 2 THEN "dev" ELSE "clean"

GroupInit ==
    /\ groups \in {f \in [GroupIds -> {ArgumentGroupNew(GroupName(g), m, r) :
                                          g \in GroupIds, m \in BOOLEAN, r \in BOOLEAN}] :
                       \A g \in GroupIds : f[g].name = GroupName(g)}
    /\ target = Scope("parser", "", FALSE)
    /\ lastGroup = 0

GroupIdle ==
    /\ groups = [g \in GroupIds |-> ArgumentGroupNew(GroupName(g), FALSE, FALSE)]
    /\ target = Scope("parser", "", FALSE)
    /\ lastGroup = 0

(* add_argument(option) or options.append(option): an Option instance,   *)
(* or a later ArgumentGroup, is appended as it is                          *)
GroupAddPrebuilt ==
    \E g \in GroupIds :
        \E child \in {OptionChild(PrebuiltLeaf)}
                        \cup {GroupChild(h) : h \in {x \in GroupIds : x > g}} :
            /\ CountChildren(groups, GroupIds) < MaxAdds
            /\ groups' = [groups EXCEPT ![g].options = Append(@, child)]
            /\ UNCHANGED <<target, lastGroup, envVars, splitVars, cliVars>>

(* add_argument of raw args and kwargs: wrapped into a new Option *)
GroupAddRaw ==
    \E g \in GroupIds :
        /\ CountChildren(groups, GroupIds) < MaxAdds
        /\ groups' = [groups EXCEPT ![g].options =
                         Append(@, OptionChild(OptionNew(RawLeaf.args, RawLeaf.kwargs)))]
        /\ UNCHANGED <<target, lastGroup, envVars, splitVars, cliVars>>

GroupAddToParser ==
    \E g \in GroupIds :
        /\ Len(target.entries) < MaxRegs
        /\ target' = ArgumentGroup_add_to_parser(groups, g, target)
        /\ lastGroup' = g
        /\ UNCHANGED <<groups, envVars, splitVars, cliVars>>

GroupAddToGroup ==
    \E g \in GroupIds :
        /\ Len(target.entries) < MaxRegs
        /\ target' = ArgumentGroup_add_to_group(groups, g, target)
        /\ lastGroup' = g
        /\ UNCHANGED <<groups, envVars, splitVars, cliVars>>

----------------------------------------------------------------------------
(* Specifications. *)

SplitIdle ==
    /\ separator = <<>>
    /\ defaultObj = ReturnNone
    /\ declared = ReturnNone
    /\ slot = Absent
    /\ matched = <<>>
    /\ raised = "none"
    /\ parses = 0

(* from_splitted_env on every variable value and separator *)
InitEnv == EnvInit /\ SplitIdle /\ CliIdle /\ GroupIdle
NextEnv == CallFromSplittedEnv
SpecEnv == InitEnv /\ [][NextEnv]_vars

(* parses of a SplitList flag over every separator and declared default *)
InitSplit == SplitInit /\ EnvIdle /\ CliIdle /\ GroupIdle
NextSplit == SplitParseBegin \/ SplitListCall \/ SplitParseEnd
SpecSplit == InitSplit /\ [][NextSplit]_vars

(* decorating, registering and parsing, from the Options as constructed *)
InitOption == CliConstructed /\ EnvIdle /\ SplitIdle /\ GroupIdle
NextOption == OptionCall \/ AddToParser \/ AddToGroup \/ ParseBegin \/ Match
SpecOption == InitOption /\ [][NextOption]_vars

(* one command: registration, parse, then the deferred invocations *)
InitParse == CliImported /\ EnvIdle /\ SplitIdle /\ GroupIdle
NextParse == AddToParser \/ AddToGroup \/ ParseBegin \/ Match \/ ParseEnd \/ RunNext \/ RunEnd
SpecParse == InitParse /\ [][NextParse]_vars

(* building ArgumentGroup trees and registering them *)
InitGroup == GroupInit /\ EnvIdle /\ SplitIdle /\ CliIdle
NextGroup == GroupAddPrebuilt \/ GroupAddRaw \/ GroupAddToParser \/ GroupAddToGroup
SpecGroup == InitGroup /\ [][NextGroup]_vars

----------------------------------------------------------------------------
(* What "the separator-split pieces, whitespace-trimmed, empties dropped"  *)
(* means, stated without the code's algorithm.                             *)

RECURSIVE Join(_, _)
Join(p, sep) ==
    IF Len(p) = 0 THEN <<>>
    ELSE IF Len(p) = 1 THEN p[1]
    ELSE p[1] \o sep \o Join(Tail(p), sep)

(* p is the split of s on sep: joining p with sep gives s back, and every *)
(* cut is the leftmost occurrence of sep after the previous cut.          *)
IsSplitOf(p, s, sep) ==
    /\ Len(p) >= 1
    /\ Join(p, sep) = s
    /\ \A i \in 1..(Len(p) - 1) :
          \A k \in 1..Len(p[i]) : ~OccursAt(sep, p[i] \o sep, k)
    /\ \A k \in 1..Len(p[Len(p)]) : ~OccursAt(sep, p[Len(p)], k)

HasInk(s) == \E k \in 1..Len(s) : s[k] \notin Whitespace

(* t is s without its leading and trailing whitespace *)
IsTrimOf(t, s) ==
    \E i, j \in 1..Len(s) :
        /\ i <= j
        /\ t = SubSeq(s, i, j)
        /\ s[i] \notin Whitespace
        /\ s[j] \notin Whitespace
        /\ \A k \in 1..Len(s) : (k < i \/ k > j) => s[k] \in Whitespace

(* r holds the trimmed pieces of p that are not blank, in p's order *)
IsTrimmedKeptOf(r, p) ==
    LET kept    == {i \in 1..Len(p) : HasInk(p[i])}
        rank(i) == Cardinality({j \in kept : j <= i})
    IN  /\ Len(r) = Cardinality(kept)
        /\ \A i \in kept : IsTrimOf(r[rank(i)], p[i])

(* r is the list of trimmed non-blank pieces of text s split on sep *)
IsPiecesOf(r, s, sep) ==
    /\ IsSplitOf(PySplit(s, sep), s, sep)
    /\ IsTrimmedKeptOf(r, PySplit(s, sep))

(* s is made of separators and whitespace only *)
RECURSIVE OnlySepWs(_, _)
OnlySepWs(s, sep) ==
    \/ s = <<>>
    \/ IsSpace(Head(s)) /\ OnlySepWs(Tail(s), sep)
    \/ /\ sep # <<>>
       /\ OccursAt(sep, s, 1)
       /\ OnlySepWs(SubSeq(s, Len(sep) + 1, Len(s)), sep)

EnvBlank == ~environ.set \/ environ.s = <<>> \/ OnlySepWs(environ.s, envSeparator)

EnvContract ==
    /\ envResult.kind \in {"None", "list"}
    /\ (envResult.kind = "None") <=> EnvBlank
    /\ envResult.kind = "list" =>
          /\ envResult.items # <<>>
          /\ IsPiecesOf(envResult.items, environ.s, envSeparator)

(* C7 as stated: for every separator, from_splitted_env returns None when *)
(* the variable is missing, empty or only separators/whitespace, and      *)
(* otherwise the non-empty list of trimmed non-empty pieces.              *)
C7_AsStated == envResult # Pending => EnvContract

(* C7 amended: the contract holds for every non-empty separator; with an  *)
(* empty separator the call returns None for a missing or empty variable  *)
(* and raises ValueError (str.split("")) for any other value.             *)
C7_EnvDefault ==
    envResult # Pending =>
        IF envSeparator # <<>> THEN EnvContract
        ELSE IF ~environ.set \/ environ.s = <<>> THEN envResult = ReturnNone
        ELSE envResult = RaiseValueError

(* a value holding a separator and whitespace but nothing else gave None *)
C7_Witness ==
    /\ envResult = ReturnNone
    /\ envSeparator # <<>>
    /\ environ.set
    /\ \E k \in 1..Len(environ.s) : OccursAt(envSeparator, environ.s, k)
    /\ \E k \in 1..Len(environ.s) :
          IsSpace(environ.s[k]) /\ ~OccursAt(envSeparator, environ.s, k)

----------------------------------------------------------------------------
(* Claims about SplitList, checked under SpecSplit. *)

(* this step is a match of the flag *)
IsMatchStep == slot # Absent /\ Len(matched') = Len(matched) + 1

MatchedValue == matched'[Len(matched')]

(* the destination after the step is the destination before it followed   *)
(* by the trimmed non-blank pieces of the matched text, and is a list      *)
Accumulated ==
    LET old == SlotItems(slot, defaultObj)
        new == SlotItems(slot', defaultObj')
    IN  /\ SlotObject(slot', defaultObj').kind = "list"
        /\ Len(new) >= Len(old)
        /\ SubSeq(new, 1, Len(old)) = old
        /\ IsPiecesOf(SubSeq(new, Len(old) + 1, Len(new)), MatchedValue.s, separator)

(* a non-text value leaves the parse result as it was *)
PassedThrough == slot' = slot /\ defaultObj' = defaultObj /\ raised' = raised

(* C3 as stated: for any separator and any text value a match sets the    *)
(* destination to its previous sequence followed by the value's trimmed,   *)
(* non-empty pieces; a non-text value changes nothing.                     *)
C3_AsStated ==
    [][IsMatchStep =>
          IF MatchedValue.text THEN raised' = "none" /\ Accumulated
          ELSE PassedThrough]_vars

(* C3 amended: the same for every non-empty separator; with the empty     *)
(* separator a text value raises ValueError and the destination stays.     *)
C3_SplitAccumulates ==
    [][IsMatchStep =>
          IF ~MatchedValue.text THEN PassedThrough
          ELSE IF separator # <<>> THEN raised' = "none" /\ Accumulated
          ELSE /\ raised' = "ValueError"
               /\ slot' = slot
               /\ defaultObj' = defaultObj]_vars

(* two text matches in one parse, each adding pieces, one of them with a  *)
(* blank piece dropped, on a destination that was not empty before         *)
C3_Witness ==
    /\ separator # <<>>
    /\ Len(matched) = 2
    /\ \A i \in 1..2 :
          matched[i].text /\ SplitStripped(matched[i].s, separator) # <<>>
    /\ \E i \in 1..2 :
          Len(PySplit(matched[i].s, separator))
              > Len(SplitStripped(matched[i].s, separator))
    /\ Len(SlotItems(slot, defaultObj)) >= 3

(* C4: no parse-time action changes the default value object an Option    *)
(* declares, so every parse starts from the declared default.              *)
C4_DefaultReadOnly == defaultObj = declared

----------------------------------------------------------------------------
(* Claims about CallbackAction and the deferred invocations, checked       *)
(* under SpecParse.                                                        *)

(* the Option instance that declares alias a *)
OwnerOf(a) == CHOOSE o \in DOMAIN options : \E k \in 1..Len(options[o].args) : options[o].args[k] = a

(* position of the registration of alias a in the container being parsed *)
RegisteredAt(a) ==
    CHOOSE i \in 1..Len(registered[parsing]) :
        \E k \in 1..Len(registered[parsing][i].args) : registered[parsing][i].args[k] = a

(* the value parsed for a matched flag: nothing for nargs=0, the argument *)
(* or the fallback constant for --pep582                                   *)
ParsedValue(tok) ==
    IF tok.alias = "--pep582"
    THEN (IF tok.arg = "none" THEN "AUTO" ELSE tok.arg)
    ELSE "[]"

(* the record a match of tok must leave *)
RecordFor(tok) ==
    [handler |-> options[OwnerOf(tok.alias)].kwargs.callback,
     values |-> ParsedValue(tok),
     option_string |-> tok.alias]

(* C1: the deferred-invocation list holds the records of the matched      *)
(* callback flags in the order the flags were matched in argv, whatever    *)
(* the order in which the Options were registered.                         *)
C1_ArgvOrder ==
    LET cb == CallbacksOf(ns)
    IN  /\ Len(cb) = Len(consumed)
        /\ \A i \in 1..Len(cb) : cb[i] = RecordFor(consumed[i])

(* two different flags matched in the order opposite to their registration *)
C1_Witness ==
    /\ phase = "run"
    /\ Len(consumed) >= 2
    /\ OwnerOf(consumed[1].alias) # OwnerOf(consumed[2].alias)
    /\ RegisteredAt(consumed[1].alias) > RegisteredAt(consumed[2].alias)
    /\ CallbacksOf(ns)[1].option_string = consumed[1].alias
    /\ CallbacksOf(ns)[2].option_string = consumed[2].alias

IsCliMatch == phase = "parse" /\ Len(consumed') = Len(consumed) + 1

(* C2: each match of a callback flag creates the list if absent, appends  *)
(* exactly one record (handler, parsed value, matched alias), leaves every *)
(* destination slot and every earlier record unchanged; after n matches    *)
(* the list has n records and no handler has run during parsing.           *)
C2_MatchAppendsOne ==
    /\ [][IsCliMatch =>
            /\ ns'.has
            /\ ns'.callbacks = CallbacksOf(ns) \o <<RecordFor(consumed'[Len(consumed')])>>
            /\ ns'.dests = ns.dests
            /\ project' = project /\ exited' = exited /\ ran' = ran]_vars
    /\ [](Len(CallbacksOf(ns)) = Len(consumed))
    /\ [](phase = "parse" => ran = <<>> /\ ~exited /\ project \in {NewProject(w) : w \in BOOLEAN})

(* the same flag matched twice, then another, all during one parse *)
C2_Witness ==
    /\ phase = "parse"
    /\ Len(consumed) = 3
    /\ consumed[1].alias = consumed[2].alias
    /\ consumed[3].alias # consumed[1].alias
    /\ Len(ns.callbacks) = 3
    /\ \A o \in DOMAIN ns.dests : ns.dests[o] = "None"

(* C6: when the driver reaches the --pep582 record its handler prints the *)
(* shell command and ends the process: the records before it have run, in  *)
(* order, and no record after it ever runs; given without a value the      *)
(* record carries the fallback constant "AUTO".                            *)
C6_Pep582Terminates ==
    LET cb == CallbacksOf(ns)
    IN  /\ \A i \in 1..Len(ran) :
              cb[ran[i]].option_string = "--pep582" =>
                  /\ i = Len(ran)
                  /\ exited
                  /\ ran = [j \in 1..ran[i] |-> j]
                  /\ project.printed = <<cb[ran[i]].values>>
                  /\ consumed[ran[i]].arg = "none" => cb[ran[i]].values = "AUTO"
        /\ exited => /\ Len(ran) >= 1
                     /\ cb[ran[Len(ran)]].option_string = "--pep582"

(* --pep582 without a value ran second of three records and ended the run *)
C6_Witness ==
    /\ phase = "done"
    /\ exited
    /\ Len(CallbacksOf(ns)) = 3
    /\ ran = <<1, 2>>
    /\ consumed[2] = [alias |-> "--pep582", arg |-> "none"]
    /\ project.printed = <<"AUTO">>

IsRunStep == Len(ran') = Len(ran) + 1

RanRecord == CallbacksOf(ns)[ran'[Len(ran')]]

IsFrozenAlias(a) == a \in {"--frozen-lockfile", "--no-lock"}

(* C9: executing a deferred --frozen-lockfile/--no-lock invocation returns *)
(* normally with the write-lockfile flag disabled, with exactly one        *)
(* warning for "--no-lock" and none for "--frozen-lockfile"; afterwards    *)
(* the flag stays disabled.                                                *)
C9_FrozenLockfile ==
    /\ [][(IsRunStep /\ IsFrozenAlias(RanRecord.option_string)) =>
            /\ ~exited'
            /\ ~project'.enable_write_lockfile
            /\ Len(project'.warnings) =
                  Len(project.warnings) + (IF RanRecord.option_string = "--no-lock" THEN 1 ELSE 0)]_vars
    /\ []((\E i \in 1..Len(ran) : IsFrozenAlias(CallbacksOf(ns)[ran[i]].option_string))
              => ~project.enable_write_lockfile)

(* both spellings ran: one warning, the flag disabled, the run not ended *)
C9_Witness ==
    /\ Len(ran) = 3
    /\ ~exited
    /\ \E i, j \in 1..3 :
          /\ CallbacksOf(ns)[i].option_string = "--no-lock"
          /\ CallbacksOf(ns)[j].option_string = "--frozen-lockfile"
    /\ Len(project.warnings) = 1
    /\ ~project.enable_write_lockfile

----------------------------------------------------------------------------
(* Claims about Option, checked under SpecOption. *)

Bound(o) == options[o].kwargs.callback # "unset"

(* C5: Option(...)(handler) returns the instance it was called on, with   *)
(* the callback action set and the handler bound; registering the instance *)
(* into two containers leaves its aliases and parameters unchanged, both   *)
(* receive the same registration and a match in either records the same    *)
(* handler.                                                                *)
C5_SameInstanceReused ==
    /\ called # NoCall =>
          /\ called.ret = called.self
          /\ options[called.self].kwargs.action = "CallbackAction"
          /\ options[called.self].kwargs.callback = called.func
    /\ \A o \in DOMAIN options :
          /\ options[o].args = DeclaredOption(o).args
          /\ options[o].kwargs.nargs = DeclaredOption(o).kwargs.nargs
          /\ options[o].kwargs.const = DeclaredOption(o).kwargs.const
          /\ epoch[o] = 0 => options[o] = DeclaredOption(o)
    /\ \A c \in Containers : \A i \in 1..Len(registered[c]) :
          LET r == registered[c][i]
          IN  /\ r.epoch = epoch[r.of] =>
                    r.args = options[r.of].args /\ r.kwargs = options[r.of].kwargs
              /\ \A d \in Containers : \A j \in 1..Len(registered[d]) :
                    LET q == registered[d][j]
                    IN  (q.of = r.of /\ q.epoch = r.epoch) =>
                            q.args = r.args /\ q.kwargs = r.kwargs
    /\ \A i \in 1..Len(CallbacksOf(ns)) :
          LET rec == CallbacksOf(ns)[i]
          IN  rec.handler = registered[parsing][RegisteredAt(rec.option_string)].kwargs.callback

(* one decorated instance registered in both containers, matched in one *)
C5_Witness ==
    /\ phase = "parse"
    /\ \E i \in 1..Len(registered["parser"]), j \in 1..Len(registered["group"]) :
          /\ registered["parser"][i].of = registered["group"][j].of
          /\ registered["parser"][i].epoch = registered["group"][j].epoch
          /\ registered["parser"][i].kwargs.action = "CallbackAction"
          /\ Len(CallbacksOf(ns)) >= 1
          /\ ns.callbacks[1].handler = registered["group"][j].kwargs.callback
          /\ ns.callbacks[1].option_string = registered["parser"][i].args[1]

(* C10 as stated: once an Option instance is bound to a handler, no later *)
(* operation rebinds it or changes its action setting.                     *)
C10_AsStated ==
    [][\A o \in DOMAIN options :
          Bound(o) => /\ options'[o].kwargs.callback = options[o].kwargs.callback
                      /\ options'[o].kwargs.action = options[o].kwargs.action]_vars

(* C10 amended: once bound, the action setting stays the callback action, *)
(* and the handler changes only by a further Option.__call__ on that       *)
(* instance, which binds the handler it is given; registration and         *)
(* parsing never rebind.                                                   *)
C10_RebindOnlyByCall ==
    [][\A o \in DOMAIN options :
          Bound(o) =>
              /\ options[o].kwargs.action = "CallbackAction"
              /\ options'[o].kwargs.action = "CallbackAction"
              /\ options'[o].kwargs.callback # options[o].kwargs.callback =>
                    /\ epoch'[o] = epoch[o] + 1
                    /\ called' = [self |-> o, func |-> options'[o].kwargs.callback, ret |-> o]]_vars

(* an instance registered under one handler and later bound to another *)
C10_Witness ==
    \E c \in Containers : \E i \in 1..Len(registered[c]) :
        LET r == registered[c][i]
        IN  /\ r.kwargs.action = "CallbackAction"
            /\ epoch[r.of] = r.epoch + 1
            /\ options[r.of].kwargs.callback # r.kwargs.callback
            /\ options[r.of].kwargs.action = "CallbackAction"

----------------------------------------------------------------------------
(* Claims about ArgumentGroup, checked under SpecGroup. *)

(* scope is what registering group g must create: an exclusivity scope    *)
(* with the group's required flag, or a display scope with the group's     *)
(* name and no enforcement; one entry per child, in the children's order,  *)
(* an argument for an Option and a conforming scope for a nested group     *)
RECURSIVE Conforms(_, _)
Conforms(scope, g) ==
    LET self == groups[g]
    IN  /\ IF self.is_mutually_exclusive
           THEN scope.kind = "mutually_exclusive" /\ scope.required = self.required
           ELSE /\ scope.kind = "argument_group"
                /\ scope.title = self.name
                /\ scope.required = FALSE
        /\ Len(scope.entries) = Len(self.options)
        /\ \A i \in 1..Len(self.options) :
              IF self.options[i].kind = "Option"
              THEN /\ scope.entries[i].kind = "argument"
                   /\ scope.entries[i].args = self.options[i].args
                   /\ scope.entries[i].kwargs = self.options[i].kwargs
              ELSE Conforms(scope.entries[i], self.options[i].id)

(* C8: registering an ArgumentGroup creates exactly one scope in the      *)
(* target container, of the kind its flags ask for, and registers every    *)
(* child into that scope in insertion order, nested groups recursively;    *)
(* nothing else of the target changes.                                     *)
C8_OneScopePerGroup ==
    [][target' # target =>
          /\ Len(target'.entries) = Len(target.entries) + 1
          /\ SubSeq(target'.entries, 1, Len(target.entries)) = target.entries
          /\ [target' EXCEPT !.entries = target.entries] = target
          /\ Conforms(target'.entries[Len(target'.entries)], lastGroup')
          /\ groups' = groups]_vars

(* a display group holding an Option and a required exclusive sub-group   *)
(* of one Option was registered: scope in scope                            *)
C8_Witness ==
    /\ Len(target.entries) >= 1
    /\ LET s == target.entries[Len(target.entries)]
       IN  /\ s.kind = "argument_group"
           /\ Len(s.entries) = 2
           /\ s.entries[1].kind = "argument"
           /\ s.entries[2].kind = "mutually_exclusive"
           /\ s.entries[2].required
           /\ Len(s.entries[2].entries) = 1
           /\ s.entries[2].entries[1].kind = "argument"

====
